---- MODULE Spec2Model ----
(***************************************************************************)
(* A model of the optimisation and consensus core of the multi-agent       *)
(* system: the broker connectivity graph (core/graph.py) and the           *)
(* SPSA broker (agents/controller.py).                                     *)
(*                                                                         *)
(* Python floats are modelled as fixed-point decimals.  Random draws are   *)
(* nondeterministic choices from small sets of values of the range the    *)
(* code draws from.                                                        *)
(***************************************************************************)
EXTENDS Integers, Sequences, FiniteSets, TLC

VARIABLES
    num_brokers,        \* GraphService.num_brokers
    edge_probability,   \* GraphService.edge_probability
    adjacency_matrix,   \* GraphService.adjacency_matrix
    neighbors,          \* GraphService.neighbors: node -> list of nodes
    weights,            \* GraphService.weights: (i, j) -> weight
    pc,                 \* position in GraphService.__init__, then "ready"
    node,               \* loop variable i of _ensure_connectivity
    exhausted,          \* the break of _ensure_connectivity was taken
    ticks,              \* number of update_graph calls so far
    last_action,        \* the modification the last update_graph call drew, and
                        \* whether it changed the graph
    executors,          \* broker -> len(Broker.executors)
    theta,              \* broker -> Broker.theta
    load,               \* broker -> Broker.load
    task_count,         \* broker -> Broker.task_count
    history,            \* broker -> Broker.history
    performance_stats,  \* broker -> Broker.performance_stats
    last_result,        \* broker -> what its last process_task call returned
    spsa_updates,       \* broker -> completed SPSA steps of the broker
    process_calls,      \* number of process_task calls so far
    update_calls,       \* number of direct _update_spsa_parameters calls so far
    broker_neighbors,   \* broker -> Broker.neighbors
    selection,          \* broker -> its running or last _select_executor call
    balance_calls,      \* number of balance_load and add_neighbor calls so far
    rounds,             \* number of consensus_update calls so far
    last_round,         \* the arguments of the last consensus_update call
    controller,         \* the fields of the RoundRobinController
    assigned,           \* the results the controller has returned
    executor,           \* the fields of the Executor
    callers             \* caller -> its position in accept_task / execute_task

graph_vars == <<num_brokers, edge_probability, adjacency_matrix, neighbors,
                weights, pc, node, exhausted, ticks, last_action>>

broker_vars == <<executors, theta, load, task_count, history, performance_stats,
                 last_result, spsa_updates, process_calls, update_calls,
                 broker_neighbors, selection, balance_calls>>

agent_vars == <<controller, assigned, executor, callers>>

vars == <<graph_vars, broker_vars, rounds, last_round, agent_vars>>

---------------------------------------------------------------------------
(* Bounds of the model *)

\* the numbers of brokers a GraphService is constructed for
BrokerCounts == 1 .. 4

\* update_graph calls in one run
MaxTicks == 2

\* consensus_update calls in one run
MaxRounds == 1

\* process_task calls in one run
MaxTasks == 2

\* process_task calls in a run of one broker
MaxRunTasks == 12

\* direct calls of _update_spsa_parameters in one run
MaxUpdateCalls == 1

\* add_neighbor and balance_load calls in one run
MaxBalanceCalls == 3

\* process_task calls of the round-robin controller in one run
MaxRoundRobinTasks == 7

\* accept_task calls of one caller of the executor in one run
MaxCallerCalls == 2

---------------------------------------------------------------------------
(* Float arithmetic.  A Python float is modelled as a fixed-point decimal: *)
(* the integer x stands for x / Scale.  Sums and differences are exact;    *)
(* products and quotients round to the nearest unit, as IEEE arithmetic    *)
(* rounds to the nearest representable value.                              *)

Scale == 10 ^ 4

Abs(x) == IF x < 0 THEN -x ELSE x
Sign(x) == IF x < 0 THEN -1 ELSE 1
Min(a, b) == IF a < b THEN a ELSE b
Max(a, b) == IF a < b THEN b ELSE a

\* n / d rounded to the nearest integer, for n >= 0 and d > 0
RoundDiv(n, d) == (n \div d) + (IF 2 * (n % d) >= d THEN 1 ELSE 0)

\* the float n / d
Float(n, d) == Sign(n) * RoundDiv(Abs(n) * Scale, d)

\* a * b; the larger factor is split so that no intermediate value
\* leaves the 32-bit range
FMul(a, b) ==
    LET lo == Min(Abs(a), Abs(b))
        hi == Max(Abs(a), Abs(b))
    IN  Sign(a) * Sign(b) *
        (lo * (hi \div Scale) + RoundDiv(lo * (hi % Scale), Scale))

\* a / b, b # 0
FDiv(a, b) == Sign(a) * Sign(b) * RoundDiv(Abs(a) * Scale, Abs(b))

---------------------------------------------------------------------------
(* GraphService: parameters *)

min_neighbors == 2
max_neighbors == 5
\* a weight_decay above 1
weight_growth == Float(105, 100)

weight_decay == Float(95, 100)
default_edge_probability == Float(3, 10)
modification_probability == Float(1, 10)

\* values of random.random(), in [0, 1): one below every positive threshold
\* of the code and one above
RandomDraws == {Float(0, 1), Float(1, 2)}

\* values of random.uniform(0.1, 1.0)
UniformWeights == {Float(1, 10), Float(1, 1)}

Nodes == 0 .. (num_brokers - 1)

InSeq(x, s) == \E k \in 1 .. Len(s) : s[k] = x

\* list.remove(x): removes the first occurrence
RECURSIVE ListRemove(_, _)
ListRemove(s, x) ==
    IF s = <<>> THEN <<>>
    ELSE IF Head(s) = x THEN Tail(s)
    ELSE <<Head(s)>> \o ListRemove(Tail(s), x)

\* A graph value: the three tables of a GraphService
Graph(adj, nb, w) == [adjacency_matrix |-> adj, neighbors |-> nb, weights |-> w]

TheGraph == Graph(adjacency_matrix, neighbors, weights)

\* _add_edge without its second adjacency assignment
_add_edge_one_way(g, i, j) ==
    LET adj0 == g.adjacency_matrix
        adj2 == [adj0 EXCEPT ![<<i, j>>] = 1]
        nb0 == g.neighbors
        nb1 == IF ~InSeq(j, nb0[i]) THEN [nb0 EXCEPT ![i] = Append(@, j)] ELSE nb0
        nb2 == IF ~InSeq(i, nb1[j]) THEN [nb1 EXCEPT ![j] = Append(@, i)] ELSE nb1
    IN  Graph(adj2, nb2, g.weights)

_add_edge(g, i, j) ==
    LET adj0 == g.adjacency_matrix
        adj2 == [adj0 EXCEPT ![<<i, j>>] = 1, ![<<j, i>>] = 1]
        nb0 == g.neighbors
        nb1 == IF ~InSeq(j, nb0[i]) THEN [nb0 EXCEPT ![i] = Append(@, j)] ELSE nb0
        nb2 == IF ~InSeq(i, nb1[j]) THEN [nb1 EXCEPT ![j] = Append(@, i)] ELSE nb1
    IN  Graph(adj2, nb2, g.weights)

_remove_edge(g, i, j) ==
    LET adj0 == g.adjacency_matrix
        adj2 == [adj0 EXCEPT ![<<i, j>>] = 0, ![<<j, i>>] = 0]
        nb0 == g.neighbors
        nb1 == IF InSeq(j, nb0[i]) THEN [nb0 EXCEPT ![i] = ListRemove(@, j)] ELSE nb0
        nb2 == IF InSeq(i, nb1[j]) THEN [nb1 EXCEPT ![j] = ListRemove(@, i)] ELSE nb1
    IN  Graph(adj2, nb2, g.weights)

\* the pairs (i, j), i < j, in the order the nested loops visit them
RECURSIVE PairsFrom(_, _, _)
PairsFrom(i, j, n) ==
    IF i >= n THEN <<>>
    ELSE IF j >= n THEN PairsFrom(i + 1, i + 2, n)
    ELSE <<<<i, j>>>> \o PairsFrom(i, j + 1, n)

PairSeq(n) == PairsFrom(0, 1, n)

PairSet(n) == {p \in (0 .. n - 1) \X (0 .. n - 1) : p[1] < p[2]}

\* the first loop of _generate_initial_graph, given the value random.random()
\* returns for each pair
RECURSIVE RandomConnections(_, _, _, _)
RandomConnections(g, pairs, draws, p) ==
    IF pairs = <<>> THEN g
    ELSE LET e == Head(pairs)
             g1 == IF draws[e] < p THEN _add_edge(g, e[1], e[2]) ELSE g
         IN  RandomConnections(g1, Tail(pairs), draws, p)

\* the candidates, were the bound on a partner's degree min_neighbors
ConnectivityCandidatesBelowMin(g, i) ==
    {j \in Nodes : /\ j # i
                   /\ ~InSeq(j, g.neighbors[i])
                   /\ Len(g.neighbors[j]) < min_neighbors}

\* candidates that include the nodes i is connected to already
ConnectivityCandidatesWithNeighbors(g, i) ==
    {j \in Nodes : /\ j # i
                   /\ Len(g.neighbors[j]) < max_neighbors}

\* the candidates of one iteration of the while loop of _ensure_connectivity
ConnectivityCandidates(g, i) ==
    {j \in Nodes : /\ j # i
                   /\ ~InSeq(j, g.neighbors[i])
                   /\ Len(g.neighbors[j]) < max_neighbors}

\* _initialize_weights
_initialize_weights(g) ==
    LET degrees == [i \in Nodes |-> Len(g.neighbors[i])]
        lo(e) == IF e[1] < e[2] THEN e[1] ELSE e[2]
        hi(e) == IF e[1] < e[2] THEN e[2] ELSE e[1]
        \* a key (i, j) is written if j is listed for i with i < j, or, as
        \* the mirror key, if i is listed for j with j < i
        written == {e \in Nodes \X Nodes :
                      /\ e[1] # e[2]
                      /\ InSeq(hi(e), g.neighbors[lo(e)])}
        weight(e) == IF degrees[e[1]] + degrees[e[2]] > 0
                     THEN Float(2, degrees[e[1]] + degrees[e[2]])
                     ELSE 0
    IN  Graph(g.adjacency_matrix, g.neighbors,
              [e \in written \cup DOMAIN g.weights |->
                  IF e \in written THEN weight(e) ELSE g.weights[e]])

---------------------------------------------------------------------------
(* update_graph and its mutations; each returns the set of graphs the     *)
(* random choices can produce                                             *)

AddCandidates(g) ==
    {e \in PairSet(num_brokers) :
        /\ g.adjacency_matrix[e] = 0
        /\ Len(g.neighbors[e[1]]) < max_neighbors
        /\ Len(g.neighbors[e[2]]) < max_neighbors}

\* the store of the weight of a new edge under the key (i, j) only
SetWeightsOneWay(g, e, w) ==
    Graph(g.adjacency_matrix, g.neighbors,
          [k \in DOMAIN g.weights \cup {e} |-> IF k = e THEN w ELSE g.weights[k]])

\* self.weights[(i, j)] = weight; self.weights[(j, i)] = weight
SetWeights(g, e, w) ==
    Graph(g.adjacency_matrix, g.neighbors,
          [k \in DOMAIN g.weights \cup {e, <<e[2], e[1]>>} |->
              IF k = e \/ k = <<e[2], e[1]>> THEN w ELSE g.weights[k]])

_add_random_edge(g) ==
    IF AddCandidates(g) = {} THEN {g}
    ELSE {SetWeights(_add_edge(g, e[1], e[2]), e, w) :
             e \in AddCandidates(g), w \in UniformWeights}

\* the candidates, were an endpoint at min_neighbors allowed to lose an edge
RemoveCandidatesAtMin(g) ==
    {e \in Nodes \X Nodes :
        /\ Len(g.neighbors[e[1]]) >= min_neighbors
        /\ InSeq(e[2], g.neighbors[e[1]])
        /\ Len(g.neighbors[e[2]]) >= min_neighbors}

RemoveCandidates(g) ==
    {e \in Nodes \X Nodes :
        /\ Len(g.neighbors[e[1]]) > min_neighbors
        /\ InSeq(e[2], g.neighbors[e[1]])
        /\ Len(g.neighbors[e[2]]) > min_neighbors}

\* the deletion of the weight of one direction only
DeleteWeightsOneWay(g, e) ==
    Graph(g.adjacency_matrix, g.neighbors,
          [k \in DOMAIN g.weights \ {e} |-> g.weights[k]])

DeleteWeights(g, e) ==
    Graph(g.adjacency_matrix, g.neighbors,
          [k \in DOMAIN g.weights \ {e, <<e[2], e[1]>>} |-> g.weights[k]])

_remove_random_edge(g) ==
    IF RemoveCandidates(g) = {} THEN {g}
    ELSE {DeleteWeights(_remove_edge(g, e[1], e[2]), e) : e \in RemoveCandidates(g)}

\* _modify_random_weight without the update of the reverse edge
_modify_random_weight_one_way(g) ==
    IF DOMAIN g.weights = {} THEN {g}
    ELSE {Graph(g.adjacency_matrix, g.neighbors,
                [k \in DOMAIN g.weights |-> IF k = e THEN w ELSE g.weights[k]]) :
             e \in DOMAIN g.weights, w \in UniformWeights}

_modify_random_weight(g) ==
    IF DOMAIN g.weights = {} THEN {g}
    ELSE {Graph(g.adjacency_matrix, g.neighbors,
                [k \in DOMAIN g.weights |->
                    IF k = e THEN w
                    ELSE IF k = <<e[2], e[1]>> THEN w
                    ELSE g.weights[k]]) :
             e \in DOMAIN g.weights, w \in UniformWeights}

_random_graph_modification(g, action) ==
    IF action = "add" THEN _add_random_edge(g)
    ELSE IF action = "remove" THEN _remove_random_edge(g)
    ELSE IF action = "modify_weight" THEN _modify_random_weight(g)
    ELSE {g}

\* a decay that reaches the keys (i, j) with i < j only
ApplyDecayOneWay(g) ==
    Graph(g.adjacency_matrix, g.neighbors,
          [e \in DOMAIN g.weights |->
              IF e[1] < e[2] THEN FMul(g.weights[e], weight_decay) ELSE g.weights[e]])

\* the first loop of update_graph: every stored weight times weight_decay
ApplyDecay(g) ==
    Graph(g.adjacency_matrix, g.neighbors,
          [e \in DOMAIN g.weights |-> FMul(g.weights[e], weight_decay)])

\* sum(len(neighbors) for neighbors in self.neighbors.values()), from node i
RECURSIVE SumLengths(_, _)
SumLengths(nb, i) ==
    IF i \notin DOMAIN nb THEN 0 ELSE Len(nb[i]) + SumLengths(nb, i + 1)

\* get_graph_stats: the number of edges and the number of stored weights
get_graph_stats(g) ==
    LET total_edges ==
            SumLengths(g.neighbors, 0) \div 2
    IN  [num_nodes |-> num_brokers,
         num_edges |-> total_edges,
         weights_count |-> Cardinality(DOMAIN g.weights)]

---------------------------------------------------------------------------
(* consensus_update *)

\* a gamma_consensus default of 2.0
gamma_consensus_large == Float(2, 1)

\* the default of the gamma_consensus parameter
gamma_consensus == Float(2, 100)

\* the gamma_consensus arguments of consensus_update: the default and a
\* large one
Gammas == {gamma_consensus, Float(2, 1)}

\* the brokers argument: a list is visited in index order, a dict in the
\* order of its keys, which may be any, and may leave brokers out
Orders(S) ==
    {o \in UNION {[1 .. k -> S] : k \in 0 .. Cardinality(S)} :
        \A a, b \in DOMAIN o : a # b => o[a] # o[b]}

Range(f) == {f[x] : x \in DOMAIN f}

get_neighbors(g, broker_id) ==
    IF broker_id \in DOMAIN g.neighbors THEN g.neighbors[broker_id] ELSE <<>>

get_weight(g, broker_i, broker_j) ==
    IF <<broker_i, broker_j>> \in DOMAIN g.weights
    THEN g.weights[<<broker_i, broker_j>>]
    ELSE 0

\* component c of SUM_{j in nbrs[k..], j in the dict} b_ij * (theta_j - theta_i)
RECURSIVE ConsensusTerm(_, _, _, _, _, _, _)
ConsensusTerm(th, g, present, i, nbrs, k, c) ==
    IF k > Len(nbrs) THEN 0
    ELSE (IF nbrs[k] \in present
          THEN FMul(get_weight(g, i, nbrs[k]), th[nbrs[k]][c] - th[i][c])
          ELSE 0)
         + ConsensusTerm(th, g, present, i, nbrs, k + 1, c)

\* the body of the loop over the brokers, for broker i, reading the thetas th
ConsensusStep(th, g, present, i, gamma) ==
    LET nbrs == get_neighbors(g, i)
    IN  IF nbrs = <<>> THEN th[i]
        ELSE [c \in 1 .. Len(th[i]) |->
                th[i][c] + FMul(gamma, ConsensusTerm(th, g, present, i, nbrs, 1, c))]

\* the loop of consensus_update from position k of the visiting order: each
\* broker's theta is assigned before the next broker is visited
RECURSIVE ConsensusLoop(_, _, _, _, _)
ConsensusLoop(th, g, order, k, gamma) ==
    IF k > Len(order) THEN th
    ELSE ConsensusLoop(
            [th EXCEPT ![order[k]] = ConsensusStep(th, g, Range(order), order[k], gamma)],
            g, order, k + 1, gamma)

consensus_update(th, g, order, gamma) == ConsensusLoop(th, g, order, 1, gamma)

---------------------------------------------------------------------------
(* Broker *)

alpha == Float(1, 100)
beta == Float(1, 10)
spsa_window == 10

Brokers == DOMAIN executors

\* the fields of broker b
Broker(b) ==
    [executors |-> executors[b], theta |-> theta[b], load |-> load[b],
     task_count |-> task_count[b], history |-> history[b],
     performance_stats |-> performance_stats[b],
     spsa_updates |-> spsa_updates[b]]

\* Broker.__init__, given the draw of np.random.uniform(-0.5, 0.5, len(executors))
NewBroker(n_executors, theta0) ==
    [executors |-> n_executors, theta |-> theta0, load |-> 0,
     task_count |-> 0, history |-> <<>>,
     performance_stats |-> [total_tasks |-> 0, successful_tasks |-> 0,
                            total_time |-> 0, average_load |-> 0],
     spsa_updates |-> 0]

RECURSIVE SumSeq(_, _)
SumSeq(s, k) == IF k > Len(s) THEN 0 ELSE s[k] + SumSeq(s, k + 1)

\* np.dot
Dot(a, b) == SumSeq([k \in 1 .. Len(a) |-> FMul(a[k], b[k])], 1)

\* _extract_features for one scoring call; filler holds the draws of
\* random.uniform(-0.5, 0.5) for the components from the fourth on.  The
\* assignments to features[0..2] raise IndexError when there are fewer than
\* three executors.
_extract_features(br, task, filler) ==
    IF br.executors < 3 THEN "IndexError"
    ELSE [k \in 1 .. br.executors |->
            IF k = 1 THEN Float(task.priority, 10)
            ELSE IF k = 2 THEN Float(task.complexity, 10)
            ELSE IF k = 3 THEN Min(Float(task.text_length, 1000), Scale)
            ELSE filler[k]]

\* the scores of _select_executor, in the order of the executors
Scores(br, task, fillers, jitters) ==
    [i \in 1 .. br.executors |->
        Dot(_extract_features(br, task, fillers[i]), br.theta) + jitters[i]]

\* _select_executor without the check for an empty executor list: the
\* loop scores nothing and scores[0] raises IndexError
_select_executor_unchecked(br, task, fillers, jitters) ==
    IF br.executors < 3 THEN [outcome |-> "IndexError", index |-> 0]
    ELSE LET scores == Scores(br, task, fillers, jitters)
         IN  [outcome |-> "selected",
              index |-> CHOOSE i \in 1 .. br.executors :
                           /\ \A j \in 1 .. br.executors : scores[j] <= scores[i]
                           /\ \A j \in 1 .. (i - 1) : scores[j] < scores[i]]

\* _select_executor: None, the IndexError of _extract_features, or the
\* position of the selected executor; the sort is stable, so the first
\* executor with the highest score comes first
_select_executor(br, task, fillers, jitters) ==
    IF br.executors = 0 THEN [outcome |-> "None", index |-> 0]
    ELSE IF br.executors < 3 THEN [outcome |-> "IndexError", index |-> 0]
    ELSE LET scores == Scores(br, task, fillers, jitters)
         IN  [outcome |-> "selected",
              index |-> CHOOSE i \in 1 .. br.executors :
                           /\ \A j \in 1 .. br.executors : scores[j] <= scores[i]
                           /\ \A j \in 1 .. (i - 1) : scores[j] < scores[i]]

\* the empty task_dict: priority 5, complexity 5, no prompt
DefaultTask == [priority |-> 5, complexity |-> 5, text_length |-> 0]

\* no _select_executor call has been made
NoSelection ==
    [pc |-> "idle", task |-> DefaultTask, outcome |-> "none", index |-> 0,
     thetas |-> <<>>, features |-> <<>>, scores |-> <<>>]

\* what a _select_executor call that runs without interruption computes: for
\* each executor in turn the theta it read, the features it extracted and
\* the score, and what the call returned or raised
SelectionOf(br, task, fillers, jitters) ==
    LET sel == _select_executor(br, task, fillers, jitters)
        scored == sel.outcome = "selected"
    IN  [pc |-> "done", task |-> task, outcome |-> sel.outcome, index |-> sel.index,
         thetas |-> IF scored THEN [i \in 1 .. br.executors |-> br.theta] ELSE <<>>,
         features |-> IF scored
                      THEN [i \in 1 .. br.executors |->
                               _extract_features(br, task, fillers[i])]
                      ELSE <<>>,
         scores |-> IF scored THEN Scores(br, task, fillers, jitters) ELSE <<>>]

\* _calculate_loss
RECURSIVE LossSum(_, _)
LossSum(h, k) ==
    IF k > Len(h) THEN 0
    ELSE FDiv(h[k].execution_time, 5 * Scale)
         + (IF h[k].result.success THEN 0 ELSE Scale)
         + LossSum(h, k + 1)

_calculate_loss(h) ==
    IF h = <<>> THEN Scale ELSE FDiv(LossSum(h, 1), Len(h) * Scale)

\* _simulate_loss, given the draw u of random.uniform(0, 0.1)
_simulate_loss(th, u) ==
    FMul(SumSeq([k \in 1 .. Len(th) |-> FMul(th[k], th[k])], 1), Float(1, 10)) + u

\* a clip that bounds from below only
ClipBelow(x, lo, hi) == IF x < lo THEN lo ELSE x

\* np.clip
Clip(x, lo, hi) == IF x < lo THEN lo ELSE IF x > hi THEN hi ELSE x

LastN(h, n) == IF Len(h) <= n THEN h ELSE SubSeq(h, Len(h) - n + 1, Len(h))

\* an SPSA step whose gradient is taken between the simulated loss at
\* theta_plus and the loss of the recorded outcomes
SpsaStepFromRecordedLoss(br, delta, u_plus, u_minus) ==
    LET recent_history == LastN(br.history, spsa_window)
        loss == _calculate_loss(recent_history)
        theta_plus == [k \in 1 .. Len(br.theta) |-> br.theta[k] + beta * delta[k]]
        loss_plus == _simulate_loss(theta_plus, u_plus)
        grad_approx == [k \in 1 .. Len(br.theta) |->
                           FDiv(loss_plus - loss, 2 * beta) * delta[k]]
        stepped == [k \in 1 .. Len(br.theta) |->
                       br.theta[k] - FMul(alpha, grad_approx[k])]
    IN  [br EXCEPT !.theta = [k \in 1 .. Len(br.theta) |->
                                 Clip(stepped[k], -2 * Scale, 2 * Scale)],
                   !.spsa_updates = @ + 1]

\* the SPSA step of _update_spsa_parameters, given delta and the two draws
\* of _simulate_loss
SpsaStep(br, delta, u_plus, u_minus) ==
    LET recent_history == LastN(br.history, spsa_window)
        loss == _calculate_loss(recent_history)
        theta_plus == [k \in 1 .. Len(br.theta) |-> br.theta[k] + beta * delta[k]]
        theta_minus == [k \in 1 .. Len(br.theta) |-> br.theta[k] - beta * delta[k]]
        loss_plus == _simulate_loss(theta_plus, u_plus)
        loss_minus == _simulate_loss(theta_minus, u_minus)
        grad_approx == [k \in 1 .. Len(br.theta) |->
                           FDiv(loss_plus - loss_minus, 2 * beta) * delta[k]]
        stepped == [k \in 1 .. Len(br.theta) |->
                       br.theta[k] - FMul(alpha, grad_approx[k])]
    IN  [br EXCEPT !.theta = [k \in 1 .. Len(br.theta) |->
                                 Clip(stepped[k], -2 * Scale, 2 * Scale)],
                   !.spsa_updates = @ + 1]

\* _update_spsa_parameters without the check of the history length
_update_spsa_parameters_unguarded(br, delta, u_plus, u_minus) ==
    SpsaStep(br, delta, u_plus, u_minus)

_update_spsa_parameters(br, delta, u_plus, u_minus) ==
    IF Len(br.history) < spsa_window THEN br
    ELSE SpsaStep(br, delta, u_plus, u_minus)

\* whether process_task calls _update_spsa_parameters after appending
UpdateDue(h) == Len(h) >= spsa_window

\* _update_average_load
_update_average_load(br) ==
    IF br.performance_stats.total_tasks > 0
    THEN [br EXCEPT !.performance_stats.average_load =
                        FDiv(br.load, br.performance_stats.total_tasks * Scale)]
    ELSE br

\* an append that keeps the outcomes of successful executions only
AppendHistoryOnSuccess(br, task, result, execution_time) ==
    IF result.success
    THEN [br EXCEPT !.history =
                 Append(@, [task |-> task, result |-> result,
                            execution_time |-> execution_time])]
    ELSE br

\* an append that keeps the records of the SPSA window only
AppendHistoryWindow(br, task, result, execution_time) ==
    [br EXCEPT !.history =
         LastN(Append(@, [task |-> task, result |-> result,
                          execution_time |-> execution_time]), spsa_window)]

\* self.history.append((task_dict, result, execution_time))
AppendHistory(br, task, result, execution_time) ==
    [br EXCEPT !.history =
         Append(@, [task |-> task, result |-> result,
                    execution_time |-> execution_time])]

\* process_task, given the task and every random draw of the call: the
\* broker after the call and the result returned
process_task(br, task, d) ==
    LET sel == _select_executor(br, task, d.fillers, d.jitters)
    IN  IF sel.outcome = "IndexError"
        THEN [broker |-> br, result |-> [status |-> "error"]]
        ELSE IF sel.outcome = "None"
        THEN [broker |-> br, result |-> [status |-> "failed"]]
        ELSE
        LET success == d.success_draw > Float(1, 10)
            br1 == [br EXCEPT !.task_count = @ + 1,
                              !.performance_stats.total_tasks = @ + 1]
            br2 == IF success
                   THEN [br1 EXCEPT !.performance_stats.successful_tasks = @ + 1]
                   ELSE br1
            br3 == [br2 EXCEPT !.performance_stats.total_time = @ + d.total_time]
            br4 == [br3 EXCEPT !.load = @ + FMul(d.execution_time, Float(1, 10))]
            br5 == _update_average_load(br4)
            result == [status |-> "completed", executor_id |-> sel.index,
                       execution_time |-> d.total_time, success |-> success]
            br6 == AppendHistory(br5, task, result, d.execution_time)
            br7 == IF UpdateDue(br6.history)
                   THEN _update_spsa_parameters(br6, d.delta, d.u_plus, d.u_minus)
                   ELSE br6
        IN  [broker |-> br7, result |-> result]

\* LVPConfig
lvp_h == Float(1, 10)
lvp_gamma == Float(5, 100)

\* add_neighbor
add_neighbor(nbrs, neighbor_broker) ==
    IF InSeq(neighbor_broker, nbrs) THEN nbrs ELSE Append(nbrs, neighbor_broker)

\* np.mean of a non-empty list
Mean(s) == Sign(SumSeq(s, 1)) * RoundDiv(Abs(SumSeq(s, 1)), Len(s))

\* balance_load without the max(0, .)
balance_load_unclamped(br, neighbor_loads) ==
    IF neighbor_loads = <<>> THEN br
    ELSE LET avg_neighbor_load == Mean(neighbor_loads)
             load_difference == br.load - avg_neighbor_load
             load_adjustment == - FMul(lvp_h, load_difference)
                                - FMul(lvp_gamma, load_difference)
         IN  [br EXCEPT !.load = br.load + FMul(load_adjustment, Float(1, 10))]

\* balance_load, given the loads of the neighbours in the order of the list
balance_load(br, neighbor_loads) ==
    IF neighbor_loads = <<>> THEN br
    ELSE LET avg_neighbor_load == Mean(neighbor_loads)
             load_difference == br.load - avg_neighbor_load
             load_adjustment == - FMul(lvp_h, load_difference)
                                - FMul(lvp_gamma, load_difference)
         IN  [br EXCEPT !.load = Max(0, br.load + FMul(load_adjustment, Float(1, 10)))]

---------------------------------------------------------------------------
(* RoundRobinController *)

\* RoundRobinController.__init__ for a list of n_executors executors
NewController(n_executors) ==
    [executors |-> n_executors, current_executor |-> 0, load |-> 0, task_count |-> 0,
     performance_stats |-> [total_tasks |-> 0, successful_tasks |-> 0,
                            total_time |-> 0, average_load |-> 0]]

\* a selection that advances current_executor before it reads the list
_select_next_executor_after_advance(ct) ==
    IF ct.executors = 0 THEN [controller |-> ct, none |-> TRUE, executor |-> 0]
    ELSE LET next == (ct.current_executor + 1) % ct.executors
         IN  [controller |-> [ct EXCEPT !.current_executor = next],
              none |-> FALSE, executor |-> next]

\* _select_next_executor: the controller after the call, whether None is
\* returned, and the position of the executor returned otherwise
_select_next_executor(ct) ==
    IF ct.executors = 0 THEN [controller |-> ct, none |-> TRUE, executor |-> 0]
    ELSE [controller |->
             [ct EXCEPT !.current_executor = (ct.current_executor + 1) % ct.executors],
          none |-> FALSE, executor |-> ct.current_executor]

\* RoundRobinController.process_task, given the draws of the call
RoundRobinProcessTask(ct, execution_time, success_draw, total_time) ==
    LET sel == _select_next_executor(ct)
    IN  IF sel.none
        THEN [controller |-> sel.controller, result |-> [status |-> "failed"]]
        ELSE
        LET success == success_draw > Float(1, 10)
            ct1 == [sel.controller EXCEPT !.task_count = @ + 1,
                                          !.performance_stats.total_tasks = @ + 1]
            ct2 == IF success
                   THEN [ct1 EXCEPT !.performance_stats.successful_tasks = @ + 1]
                   ELSE ct1
            ct3 == [ct2 EXCEPT !.performance_stats.total_time = @ + total_time]
            ct4 == [ct3 EXCEPT !.load = @ + FMul(execution_time, Float(1, 10))]
            ct5 == _update_average_load(ct4)
        IN  [controller |-> ct5,
             result |-> [status |-> "completed", executor_id |-> sel.executor,
                         execution_time |-> total_time, success |-> success]]

---------------------------------------------------------------------------
(* Executor *)

default_load_capacity == 10

\* Executor.__init__; of performance_stats the two counters of tasks are kept
NewExecutor(load_capacity) ==
    [load_capacity |-> load_capacity, current_load |-> 0, task_count |-> 0,
     performance_stats |-> [total_tasks |-> 0, successful_tasks |-> 0]]

\* accept_task, given the draw r of random.random(): whether the task is
\* accepted
accept_task(ex, r) ==
    IF ex.current_load >= ex.load_capacity THEN FALSE
    ELSE LET acceptance_prob ==
                 Max(Float(1, 10), Scale - Float(ex.current_load, ex.load_capacity))
         IN  r < acceptance_prob

\* the body of execute_task between the increment and the decrement of
\* current_load, given the draw r that decides the success
execute_body(ex, r) ==
    LET load_factor == Scale - Float(ex.current_load, ex.load_capacity)
        success_prob == FMul(Float(95, 100), load_factor) + Float(5, 100)
        ex1 == IF r < success_prob
               THEN [ex EXCEPT !.performance_stats.successful_tasks = @ + 1]
               ELSE ex
    IN  [ex1 EXCEPT !.task_count = @ + 1, !.performance_stats.total_tasks = @ + 1]

\* a caller of the executor: where it is, the current_load it has read for
\* the pending += 1 or -= 1, and the accept_task calls it has made
IdleCaller == [pc |-> "idle", read |-> 0, calls |-> 0]

\* the controller, the executor and the callers of a run
InitAgents(n_executors, load_capacity, threads) ==
    /\ controller = NewController(n_executors)
    /\ assigned = <<>>
    /\ executor = NewExecutor(load_capacity)
    /\ callers = [c \in threads |-> IdleCaller]

\* no RoundRobinController is used and no caller uses the Executor
NoAgents == InitAgents(0, default_load_capacity, {})

---------------------------------------------------------------------------
(* Inputs of the broker operations *)

\* the load attribute of neighbour objects that are not brokers of the run
ForeignLoads == {Float(-5, 1), Float(2, 1)}

\* the objects a caller may pass to add_neighbor of broker b: another broker
\* of the run, or any other object with a load
NeighborObjects(b) ==
    {<<"broker", c>> : c \in Brokers \ {b}} \cup {<<"object", l>> : l \in ForeignLoads}

\* neighbor.load
NeighborLoad(neighbor) ==
    IF neighbor[1] = "broker" THEN load[neighbor[2]] ELSE neighbor[2]

\* task_dict: priority, complexity and the length of the prompt
Tasks == {[priority |-> 5, complexity |-> 5, text_length |-> 0],
          [priority |-> 20, complexity |-> 1, text_length |-> 2000]}

\* values of random.uniform(0.5, 3.0)
ExecutionTimes == {Float(1, 2), Float(3, 1)}

\* values of random.uniform(-0.1, 0.1), the jitter of a score
Jitters == {Float(-1, 10), Float(1, 10)}

\* values of random.uniform(-0.5, 0.5), filler features and initial thetas
HalfUnit == {Float(-1, 2), Float(1, 2)}

\* values of random.uniform(0, 0.1), the noise of _simulate_loss
LossNoise == {0, Float(1, 10)}

\* time.time() - start_time
WallTimes == {1}

\* the draws of one process_task call of a broker with n executors
Draws(n, times, successes, deltas, noises) ==
    [fillers : [1 .. n -> [4 .. n -> HalfUnit]],
     jitters : [1 .. n -> Jitters],
     execution_time : times,
     success_draw : successes,
     total_time : WallTimes,
     delta : deltas,
     u_plus : noises,
     u_minus : noises]

Deltas(n) == [1 .. n -> {-1, 1}]

---------------------------------------------------------------------------
(* Actions of the graph *)

SetGraph(g) ==
    /\ adjacency_matrix' = g.adjacency_matrix
    /\ neighbors' = g.neighbors
    /\ weights' = g.weights

\* GraphService.__init__ up to the call of _generate_initial_graph
InitGraph(n, p) ==
    /\ num_brokers = n
    /\ edge_probability = p
    /\ adjacency_matrix = [e \in (0 .. n - 1) \X (0 .. n - 1) |-> 0]
    /\ neighbors = [i \in 0 .. n - 1 |-> <<>>]
    /\ weights = [e \in {} |-> 0]
    /\ pc = "generate"
    /\ node = 0
    /\ exhausted = FALSE
    /\ ticks = 0
    /\ last_action = [action |-> "none", applied |-> FALSE]
    /\ rounds = 0
    /\ last_round = [order |-> <<>>, gamma |-> 0]

\* the brokers of the run, each as Broker.__init__ leaves it or after the
\* tasks it has processed before the run starts
InitBrokers(bs) ==
    /\ executors = [b \in DOMAIN bs |-> bs[b].executors]
    /\ theta = [b \in DOMAIN bs |-> bs[b].theta]
    /\ load = [b \in DOMAIN bs |-> bs[b].load]
    /\ task_count = [b \in DOMAIN bs |-> bs[b].task_count]
    /\ history = [b \in DOMAIN bs |-> bs[b].history]
    /\ performance_stats = [b \in DOMAIN bs |-> bs[b].performance_stats]
    /\ spsa_updates = [b \in DOMAIN bs |-> bs[b].spsa_updates]
    /\ last_result = [b \in DOMAIN bs |-> [status |-> "none"]]
    /\ process_calls = 0
    /\ update_calls = 0
    /\ broker_neighbors = [b \in DOMAIN bs |-> <<>>]
    /\ selection = [b \in DOMAIN bs |-> NoSelection]
    /\ balance_calls = 0

\* no Broker object exists
NoBrokers == InitBrokers([b \in {} |-> NewBroker(0, <<>>)])

\* the first loop of _generate_initial_graph, the value of random.random()
\* for each pair taken from draw_functions
GenerateWith(draw_functions) ==
    /\ pc = "generate"
    /\ \E draws \in draw_functions :
          SetGraph(RandomConnections(TheGraph, PairSeq(num_brokers), draws,
                                     edge_probability))
    /\ pc' = "repair"
    /\ node' = 0
    /\ UNCHANGED <<num_brokers, edge_probability, exhausted, ticks, last_action>>
    /\ UNCHANGED <<broker_vars, rounds, last_round, agent_vars>>

GenerateInitialGraph == GenerateWith([PairSet(num_brokers) -> RandomDraws])

\* _ensure_connectivity: one evaluation of the while condition for node i,
\* with the body or the exit that follows it
EnsureConnectivity ==
    /\ pc = "repair"
    /\ node < num_brokers
    /\ IF Len(neighbors[node]) < min_neighbors
       THEN IF ConnectivityCandidates(TheGraph, node) # {}
            THEN /\ \E j \in ConnectivityCandidates(TheGraph, node) :
                        SetGraph(_add_edge(TheGraph, node, j))
                 /\ UNCHANGED <<node, exhausted>>
            ELSE /\ node' = node + 1
                 /\ exhausted' = TRUE
                 /\ UNCHANGED <<adjacency_matrix, neighbors, weights>>
       ELSE /\ node' = node + 1
            /\ UNCHANGED <<exhausted, adjacency_matrix, neighbors, weights>>
    /\ UNCHANGED <<num_brokers, edge_probability, pc, ticks, last_action>>
    /\ UNCHANGED <<broker_vars, rounds, last_round, agent_vars>>

\* _initialize_weights, the last step of construction
InitializeWeights ==
    /\ pc = "repair"
    /\ node = num_brokers
    /\ SetGraph(_initialize_weights(TheGraph))
    /\ pc' = "ready"
    /\ UNCHANGED <<num_brokers, edge_probability, node, exhausted, ticks, last_action>>
    /\ UNCHANGED <<broker_vars, rounds, last_round, agent_vars>>

\* the graphs one update_graph call can leave: decay, then with probability
\* 0.1 one random modification
update_graph(g, r, action) ==
    IF r < modification_probability
    THEN _random_graph_modification(ApplyDecay(g), action)
    ELSE {ApplyDecay(g)}

UpdateGraph ==
    /\ pc = "ready"
    /\ ticks < MaxTicks
    /\ ticks' = ticks + 1
    /\ \E r \in RandomDraws, action \in {"add", "remove", "modify_weight"} :
          \E g \in update_graph(TheGraph, r, action) :
             /\ SetGraph(g)
             /\ last_action' =
                   [action |-> IF r < modification_probability THEN action ELSE "none",
                    applied |-> g # ApplyDecay(TheGraph)]
    /\ UNCHANGED <<num_brokers, edge_probability, pc, node, exhausted>>
    /\ UNCHANGED <<broker_vars, rounds, last_round, agent_vars>>

\* consensus_update(brokers, gamma) on the constructed graph, the visiting
\* order of the brokers taken from orders and gamma from gammas
ConsensusUpdateWith(orders, gammas, max_rounds) ==
    /\ pc = "ready"
    /\ rounds < max_rounds
    /\ rounds' = rounds + 1
    /\ \E order \in orders, gamma \in gammas :
          /\ theta' = consensus_update(theta, TheGraph, order, gamma)
          /\ last_round' = [order |-> order, gamma |-> gamma]
    /\ UNCHANGED <<agent_vars, graph_vars, executors, load, task_count, history,
                   performance_stats, last_result, spsa_updates, process_calls,
                   update_calls, broker_neighbors, selection, balance_calls>>

ConsensusUpdate == ConsensusUpdateWith(Orders(Brokers), Gammas, MaxRounds)

---------------------------------------------------------------------------
(* Actions of the brokers *)

SetBroker(b, br) ==
    /\ theta' = [theta EXCEPT ![b] = br.theta]
    /\ load' = [load EXCEPT ![b] = br.load]
    /\ task_count' = [task_count EXCEPT ![b] = br.task_count]
    /\ history' = [history EXCEPT ![b] = br.history]
    /\ performance_stats' = [performance_stats EXCEPT ![b] = br.performance_stats]
    /\ spsa_updates' = [spsa_updates EXCEPT ![b] = br.spsa_updates]
    /\ UNCHANGED executors

\* broker b processes one task, the draws of the call taken from draws
ProcessTaskWith(b, tasks, draws, max_calls) ==
    /\ process_calls < max_calls
    /\ process_calls' = process_calls + 1
    /\ \E task \in tasks, d \in draws :
          LET out == process_task(Broker(b), task, d)
          IN  /\ SetBroker(b, out.broker)
              /\ last_result' = [last_result EXCEPT ![b] = out.result]
              /\ selection' = [selection EXCEPT
                                  ![b] = SelectionOf(Broker(b), task, d.fillers, d.jitters)]
    /\ UNCHANGED <<agent_vars, graph_vars, rounds, last_round, update_calls, broker_neighbors,
                   balance_calls>>

ProcessTask ==
    \E b \in Brokers :
        ProcessTaskWith(b, Tasks,
                        Draws(executors[b], ExecutionTimes, RandomDraws,
                              Deltas(executors[b]), LossNoise),
                        MaxTasks)

\* a direct call of _update_spsa_parameters of some broker, the components of
\* its delta taken from signs and its loss noise from noises
UpdateSpsaParametersWith(signs, noises) ==
    /\ update_calls < MaxUpdateCalls
    /\ update_calls' = update_calls + 1
    /\ \E b \in Brokers :
          \E delta \in [1 .. executors[b] -> signs], u_plus, u_minus \in noises :
             SetBroker(b, _update_spsa_parameters(Broker(b), delta, u_plus, u_minus))
    /\ UNCHANGED <<agent_vars, graph_vars, rounds, last_round, last_result, process_calls,
                   broker_neighbors, selection, balance_calls>>

UpdateSpsaParameters == UpdateSpsaParametersWith({-1, 1}, LossNoise)

\* add_neighbor(neighbor_broker) of some broker
AddNeighbor ==
    /\ balance_calls < MaxBalanceCalls
    /\ balance_calls' = balance_calls + 1
    /\ \E b \in Brokers :
          \E neighbor_broker \in NeighborObjects(b) :
             broker_neighbors' =
                [broker_neighbors EXCEPT ![b] = add_neighbor(@, neighbor_broker)]
    /\ UNCHANGED <<agent_vars, graph_vars, rounds, last_round, executors, theta, load, task_count,
                   history, performance_stats, last_result, spsa_updates,
                   process_calls, update_calls, selection>>

\* balance_load() of some broker
BalanceLoad ==
    /\ balance_calls < MaxBalanceCalls
    /\ balance_calls' = balance_calls + 1
    /\ \E b \in Brokers :
          LET neighbor_loads ==
                 [k \in 1 .. Len(broker_neighbors[b]) |->
                     NeighborLoad(broker_neighbors[b][k])]
          IN  SetBroker(b, balance_load(Broker(b), neighbor_loads))
    /\ UNCHANGED <<agent_vars, graph_vars, rounds, last_round, last_result, process_calls,
                   update_calls, broker_neighbors, selection>>

\* _select_executor of broker b run statement by statement, so that other
\* calls can run between its statements.  The call enters the loop over
\* the executors, or returns None at once.
BeginSelect ==
    \E b \in Brokers :
        /\ selection[b].pc = "idle"
        /\ \E task \in Tasks :
              selection' =
                 [selection EXCEPT
                     ![b] = IF executors[b] = 0
                            THEN [NoSelection EXCEPT !.pc = "done", !.task = task,
                                                     !.outcome = "None"]
                            ELSE [NoSelection EXCEPT !.pc = "scoring", !.task = task]]
        /\ UNCHANGED <<agent_vars, graph_vars, rounds, last_round, executors, theta, load,
                       task_count, history, performance_stats, last_result,
                       spsa_updates, process_calls, update_calls, broker_neighbors,
                       balance_calls>>

\* one iteration of the loop: the features are extracted and the score of the
\* next executor is computed from self.theta as it is now
ScoreCandidate ==
    \E b \in Brokers :
        /\ selection[b].pc = "scoring"
        /\ Len(selection[b].scores) < executors[b]
        /\ \E filler \in [4 .. executors[b] -> HalfUnit], jitter \in Jitters :
              LET features == _extract_features(Broker(b), selection[b].task, filler)
              IN  selection' =
                     [selection EXCEPT
                         ![b] = IF executors[b] < 3
                                THEN [@ EXCEPT !.pc = "done", !.outcome = "IndexError"]
                                ELSE [@ EXCEPT
                                         !.thetas = Append(@, theta[b]),
                                         !.features = Append(@, features),
                                         !.scores = Append(@, Dot(features, theta[b])
                                                              + jitter)]]
        /\ UNCHANGED <<agent_vars, graph_vars, rounds, last_round, executors, theta, load,
                       task_count, history, performance_stats, last_result,
                       spsa_updates, process_calls, update_calls, broker_neighbors,
                       balance_calls>>

\* the sort after the loop, and the return of the first executor of the
\* highest score
EndSelect ==
    \E b \in Brokers :
        /\ selection[b].pc = "scoring"
        /\ Len(selection[b].scores) = executors[b]
        /\ LET scores == selection[b].scores
           IN  selection' =
                  [selection EXCEPT
                      ![b] = [@ EXCEPT
                                 !.pc = "done",
                                 !.outcome = "selected",
                                 !.index =
                                    CHOOSE i \in 1 .. executors[b] :
                                       /\ \A j \in 1 .. executors[b] :
                                             scores[j] <= scores[i]
                                       /\ \A j \in 1 .. (i - 1) :
                                             scores[j] < scores[i]]]
        /\ UNCHANGED <<agent_vars, graph_vars, rounds, last_round, executors, theta, load,
                       task_count, history, performance_stats, last_result,
                       spsa_updates, process_calls, update_calls, broker_neighbors,
                       balance_calls>>

---------------------------------------------------------------------------
(* Actions of the round-robin controller and of the executor *)

\* RoundRobinController.process_task
RoundRobinTask ==
    /\ Len(assigned) < MaxRoundRobinTasks
    /\ \E execution_time \in ExecutionTimes, success_draw \in RandomDraws,
          total_time \in WallTimes :
          LET out == RoundRobinProcessTask(controller, execution_time, success_draw,
                                           total_time)
          IN  /\ controller' = out.controller
              /\ assigned' = Append(assigned, out.result)
    /\ UNCHANGED <<graph_vars, broker_vars, rounds, last_round, executor, callers>>

\* caller c calls accept_task
AcceptTask ==
    \E c \in DOMAIN callers :
        /\ callers[c].pc = "idle"
        /\ callers[c].calls < MaxCallerCalls
        /\ \E r \in RandomDraws :
              callers' = [callers EXCEPT
                             ![c].pc = IF accept_task(executor, r)
                                       THEN "accepted" ELSE "idle",
                             ![c].calls = @ + 1]
        /\ UNCHANGED <<graph_vars, broker_vars, rounds, last_round, controller,
                       assigned, executor>>

\* caller c, whose task was accepted, calls execute_task: self.current_load
\* is read for the += 1
BeginExecute ==
    \E c \in DOMAIN callers :
        /\ callers[c].pc = "accepted"
        /\ callers' = [callers EXCEPT ![c].pc = "incrementing",
                                      ![c].read = executor.current_load]
        /\ UNCHANGED <<graph_vars, broker_vars, rounds, last_round, controller,
                       assigned, executor>>

\* the += 1 stores the value read plus one
IncrementLoad ==
    \E c \in DOMAIN callers :
        /\ callers[c].pc = "incrementing"
        /\ executor' = [executor EXCEPT !.current_load = callers[c].read + 1]
        /\ callers' = [callers EXCEPT ![c].pc = "running"]
        /\ UNCHANGED <<graph_vars, broker_vars, rounds, last_round, controller,
                       assigned>>

\* the simulated execution and the statistics; self.current_load is read
\* for the -= 1
RunTask ==
    \E c \in DOMAIN callers :
        /\ callers[c].pc = "running"
        /\ \E r \in RandomDraws : executor' = execute_body(executor, r)
        /\ callers' = [callers EXCEPT ![c].pc = "decrementing",
                                      ![c].read = executor.current_load]
        /\ UNCHANGED <<graph_vars, broker_vars, rounds, last_round, controller,
                       assigned>>

\* the -= 1 stores the value read minus one, and execute_task returns
DecrementLoad ==
    \E c \in DOMAIN callers :
        /\ callers[c].pc = "decrementing"
        /\ executor' = [executor EXCEPT !.current_load = callers[c].read - 1]
        /\ callers' = [callers EXCEPT ![c].pc = "idle"]
        /\ UNCHANGED <<graph_vars, broker_vars, rounds, last_round, controller,
                       assigned>>

---------------------------------------------------------------------------
(* Specifications *)

\* The graph alone: construction for 1 to 4 brokers, then ticks.
Init ==
    /\ \E n \in BrokerCounts : InitGraph(n, default_edge_probability)
    /\ NoBrokers
    /\ NoAgents

Next ==
    \/ GenerateInitialGraph
    \/ EnsureConnectivity
    \/ InitializeWeights
    \/ UpdateGraph

Spec == Init /\ [][Next]_vars

\* A graph of more brokers than a node may have neighbours.  The random
\* draws are restricted to those that connect every pair of the nodes
\* 1 .. n-1; the draws for the pairs of node 0 are free.
DenseBrokers == max_neighbors + 2

DenseDraws(n) ==
    {[e \in PairSet(n) |-> IF e[1] = 0 THEN f[e[2]] ELSE 0] :
        f \in [1 .. n - 1 -> RandomDraws]}

GenerateDense == GenerateWith(DenseDraws(num_brokers))

InitDense ==
    /\ InitGraph(DenseBrokers, default_edge_probability)
    /\ NoBrokers
    /\ NoAgents

NextDense ==
    \/ GenerateDense
    \/ EnsureConnectivity
    \/ InitializeWeights
    \/ UpdateGraph

SpecDense == InitDense /\ [][NextDense]_vars

\* Construction with edge probability 0: every edge comes from the repair.
SparseBrokers == 5

InitSparse ==
    /\ InitGraph(SparseBrokers, 0)
    /\ NoBrokers
    /\ NoAgents

NextSparse ==
    \/ GenerateInitialGraph
    \/ EnsureConnectivity
    \/ InitializeWeights

SpecSparse == InitSparse /\ [][NextSparse]_vars

\* Construction alone, for 1 to 3 brokers and an edge probability of 0.3, of
\* 0 (every edge comes from the repair) or of 1 (every pair is connected).
\* __init__ runs its statements one after the other, so a step of
\* construction that can be taken is taken; the ticks that follow are up to
\* the caller.
ConstructionCounts == 1 .. 3

InitConstruction ==
    /\ \E n \in ConstructionCounts :
          \E p \in {default_edge_probability, 0, Float(1, 1)} : InitGraph(n, p)
    /\ NoBrokers
    /\ NoAgents

NextConstruction ==
    \/ GenerateInitialGraph
    \/ EnsureConnectivity
    \/ InitializeWeights

NextConstructionAndTicks ==
    \/ NextConstruction
    \/ UpdateGraph

SpecConstruction ==
    /\ InitConstruction
    /\ [][NextConstructionAndTicks]_vars
    /\ WF_vars(NextConstruction)

\* Brokers on a graph: consensus rounds and direct SPSA updates.  The
\* brokers are new, or have processed PrefillTasks tasks before the run.
PrefillDraw(n) ==
    [fillers |-> [i \in 1 .. n |-> [k \in 4 .. n |-> 0]],
     jitters |-> [i \in 1 .. n |-> 0],
     execution_time |-> Float(1, 2),
     success_draw |-> Float(1, 2),
     total_time |-> 1,
     delta |-> [k \in 1 .. n |-> 1],
     u_plus |-> 0,
     u_minus |-> 0]

PrefillTask == [priority |-> 5, complexity |-> 5, text_length |-> 0]

\* the broker br after h more tasks
RECURSIVE AfterTasks(_, _)
AfterTasks(br, h) ==
    IF h = 0 THEN br
    ELSE process_task(AfterTasks(br, h - 1), PrefillTask, PrefillDraw(br.executors)).broker

\* (number of brokers, executors of each, tasks each has processed)
ConsensusSetups == {<<2, 2, 0>>, <<3, 1, 0>>, <<2, 3, 9>>, <<2, 3, 10>>}

\* the draws of the initial theta of a broker with d executors; with three
\* executors, those with all components equal
InitialThetas(d) ==
    IF d < 3 THEN [1 .. d -> HalfUnit]
    ELSE {[k \in 1 .. d |-> v] : v \in HalfUnit}

InitConsensus ==
    /\ NoAgents
    /\ \E c \in ConsensusSetups :
           /\ InitGraph(c[1], default_edge_probability)
           /\ \E th \in [0 .. c[1] - 1 -> InitialThetas(c[2])] :
                 InitBrokers([b \in 0 .. c[1] - 1 |->
                                 AfterTasks(NewBroker(c[2], th[b]), c[3])])

NextConsensus ==
    \/ GenerateInitialGraph
    \/ EnsureConnectivity
    \/ InitializeWeights
    \/ ConsensusUpdate
    \/ UpdateSpsaParameters

SpecConsensus == InitConsensus /\ [][NextConsensus]_vars

\* One broker processing a run of tasks.  The draws of a call are narrowed
\* to two outcomes of the task, one delta and one noise pair.
NarrowDraws(n) ==
    {d \in Draws(n, {Float(1, 2)}, RandomDraws, {[k \in 1 .. n |-> 1]}, LossNoise) :
        /\ d.jitters = [i \in 1 .. n |-> Float(1, 10)]
        /\ d.u_minus = 0}

ProcessTaskRun ==
    ProcessTaskWith(0, {PrefillTask}, NarrowDraws(executors[0]), MaxRunTasks)

InitBroker ==
    /\ InitGraph(1, default_edge_probability)
    /\ \E th \in InitialThetas(3) :
          InitBrokers([b \in {0} |-> NewBroker(3, th)])
    /\ NoAgents

NextBroker == ProcessTaskRun

SpecBroker == InitBroker /\ [][NextBroker]_vars

\* One broker with no, one, two or three executors processing tasks.
ExecutorCounts == 0 .. 3

\* the draws of a call that matter while the history is shorter than the
\* SPSA window: the jitters and the success draw
TaskDraws(n) ==
    Draws(n, {Float(1, 2)}, RandomDraws, {[k \in 1 .. n |-> 1]}, {0})

ProcessTaskShort ==
    \E b \in Brokers :
        ProcessTaskWith(b, Tasks, TaskDraws(executors[b]), MaxTasks)

InitTasks ==
    /\ InitGraph(1, default_edge_probability)
    /\ \E n \in ExecutorCounts :
          \E th \in InitialThetas(n) :
             InitBrokers([b \in {0} |-> NewBroker(n, th)])
    /\ NoAgents

NextTasks == ProcessTaskShort

SpecTasks == InitTasks /\ [][NextTasks]_vars

\* Two brokers of three executors: tasks and load balancing among the
\* neighbours a caller has added.
LoadDraws(n) ==
    {d \in Draws(n, ExecutionTimes, {Float(1, 2)}, {[k \in 1 .. n |-> 1]}, {0}) :
        d.jitters = [i \in 1 .. n |-> Float(1, 10)]}

ProcessTaskLoad ==
    \E b \in Brokers :
        ProcessTaskWith(b, {PrefillTask}, LoadDraws(executors[b]), MaxTasks)

InitLoad ==
    /\ InitGraph(2, default_edge_probability)
    /\ \E th \in InitialThetas(3) :
          InitBrokers([b \in 0 .. 1 |-> NewBroker(3, th)])
    /\ NoAgents

NextLoad ==
    \/ ProcessTaskLoad
    \/ AddNeighbor
    \/ BalanceLoad

SpecLoad == InitLoad /\ [][NextLoad]_vars

\* Two brokers of three executors on a graph, with every operation a caller
\* can invoke: tasks, neighbours and load balancing, graph ticks and
\* consensus rounds and direct SPSA updates, at most MaxFrameCalls calls in a
\* run.  Broker 0 has
\* processed nine tasks before the run, so that its next task fills the
\* SPSA window.  The draws of a task are narrowed to a successful execution
\* of 0.5 s, those of a direct SPSA update to one delta and no noise.
MaxFrameCalls == 4

FrameBudget ==
    ticks + rounds + process_calls + update_calls + balance_calls < MaxFrameCalls

SuccessDraws(n) == {d \in NarrowDraws(n) : d.success_draw = Float(1, 2)}

FrameUpdateGraph == FrameBudget /\ UpdateGraph

FrameConsensusUpdate == FrameBudget /\ ConsensusUpdate

FrameProcessTask ==
    /\ FrameBudget
    /\ \E b \in Brokers :
          ProcessTaskWith(b, {PrefillTask}, SuccessDraws(executors[b]), MaxTasks)

FrameUpdateSpsaParameters == FrameBudget /\ UpdateSpsaParametersWith({1}, {0})

FrameAddNeighbor == FrameBudget /\ AddNeighbor

FrameBalanceLoad == FrameBudget /\ BalanceLoad

InitFrame ==
    /\ InitGraph(2, default_edge_probability)
    /\ InitBrokers([b \in 0 .. 1 |->
                       AfterTasks(NewBroker(3, [k \in 1 .. 3 |->
                                                  IF b = 0 THEN Float(1, 2)
                                                  ELSE Float(-1, 2)]),
                                  IF b = 0 THEN 9 ELSE 0)])
    /\ NoAgents

NextFrame ==
    \/ GenerateInitialGraph
    \/ EnsureConnectivity
    \/ InitializeWeights
    \/ FrameUpdateGraph
    \/ FrameConsensusUpdate
    \/ FrameProcessTask
    \/ FrameUpdateSpsaParameters
    \/ FrameAddNeighbor
    \/ FrameBalanceLoad

SpecFrame == InitFrame /\ [][NextFrame]_vars

\* Four brokers of one executor on a ring: ticks that reweight an edge,
\* then consensus rounds on the graph as the ticks left it.  The brokers
\* are passed as a list and start from distinct thetas.
MaxConvergenceTicks == 3
MaxConvergenceRounds == 2

RingBrokers == 4

\* the draws of random.random() that connect 0-2, 0-3, 1-2 and 1-3
RingDraws ==
    {[e \in PairSet(RingBrokers) |->
         IF e \in {<<0, 2>>, <<0, 3>>, <<1, 2>>, <<1, 3>>} THEN 0 ELSE Float(1, 2)]}

GenerateRing == GenerateWith(RingDraws)

\* update_graph before the first round, its draws narrowed to a new weight
\* for one edge
ConvergenceTick ==
    /\ pc = "ready"
    /\ rounds = 0
    /\ ticks < MaxConvergenceTicks
    /\ ticks' = ticks + 1
    /\ \E g \in update_graph(TheGraph, 0, "modify_weight") :
          /\ SetGraph(g)
          /\ last_action' = [action |-> "modify_weight",
                             applied |-> g # ApplyDecay(TheGraph)]
    /\ UNCHANGED <<num_brokers, edge_probability, pc, node, exhausted>>
    /\ UNCHANGED <<broker_vars, rounds, last_round, agent_vars>>

\* gamma_consensus arguments below 1 / 2, the inverse of the degree of
\* every node of the ring
ConvergenceGammas == {Float(3, 10), Float(45, 100)}

ConvergenceRound ==
    ConsensusUpdateWith({[k \in 1 .. RingBrokers |-> k - 1]}, ConvergenceGammas,
                        MaxConvergenceRounds)

\* values of np.random.uniform(-0.5, 0.5, 1)
ConvergenceThetas == {Float(-1, 2), Float(-4, 10), Float(-3, 10), 0}

InitConvergence ==
    /\ InitGraph(RingBrokers, default_edge_probability)
    /\ \E th \in [0 .. RingBrokers - 1 -> ConvergenceThetas] :
          /\ \A a, b \in 0 .. RingBrokers - 1 : a # b => th[a] # th[b]
          /\ InitBrokers([b \in 0 .. RingBrokers - 1 |-> NewBroker(1, <<th[b]>>)])
    /\ NoAgents

NextConvergence ==
    \/ GenerateRing
    \/ EnsureConnectivity
    \/ InitializeWeights
    \/ ConvergenceTick
    \/ ConvergenceRound

SpecConvergence == InitConvergence /\ [][NextConvergence]_vars

\* Two brokers of three executors on a graph, each selecting an executor
\* in a thread of its own while another thread runs consensus_update.  The
\* interpreter may switch threads between any two statements; the model
\* lets the consensus round run between two iterations of the scoring loop.
InitConcurrent ==
    /\ InitGraph(2, default_edge_probability)
    /\ \E th \in [0 .. 1 -> InitialThetas(3)] :
          InitBrokers([b \in 0 .. 1 |-> NewBroker(3, th[b])])
    /\ NoAgents

NextConcurrent ==
    \/ GenerateInitialGraph
    \/ EnsureConnectivity
    \/ InitializeWeights
    \/ ConsensusUpdate
    \/ BeginSelect
    \/ ScoreCandidate
    \/ EndSelect

SpecConcurrent == InitConcurrent /\ [][NextConcurrent]_vars

\* Two brokers of three executors that start from the same theta and have
\* each processed ten tasks with outcomes of their own; the SPSA update then
\* runs on both with the same draws of delta and of the loss noise.
OutcomePatterns ==
    {[k \in 1 .. spsa_window |-> [execution_time |-> Float(1, 2), success_draw |-> Float(1, 2)]],
     [k \in 1 .. spsa_window |-> [execution_time |-> Float(3, 1), success_draw |-> 0]],
     [k \in 1 .. spsa_window |->
         IF k % 2 = 0 THEN [execution_time |-> Float(3, 1), success_draw |-> Float(1, 2)]
         ELSE [execution_time |-> Float(1, 2), success_draw |-> 0]]}

\* the broker br after the tasks whose execution times and success draws
\* are outcomes[1 .. h]
RECURSIVE AfterOutcomes(_, _, _)
AfterOutcomes(br, outcomes, h) ==
    IF h = 0 THEN br
    ELSE process_task(AfterOutcomes(br, outcomes, h - 1), PrefillTask,
                      [PrefillDraw(br.executors) EXCEPT
                          !.execution_time = outcomes[h].execution_time,
                          !.success_draw = outcomes[h].success_draw]).broker

\* _update_spsa_parameters of both brokers, with the same draws
PairedUpdate ==
    /\ update_calls < MaxUpdateCalls
    /\ update_calls' = update_calls + 1
    /\ \E delta \in Deltas(3), u_plus, u_minus \in LossNoise :
          LET after == [b \in Brokers |->
                           _update_spsa_parameters(Broker(b), delta, u_plus, u_minus)]
          IN  /\ theta' = [b \in Brokers |-> after[b].theta]
              /\ spsa_updates' = [b \in Brokers |-> after[b].spsa_updates]
    /\ UNCHANGED <<agent_vars, graph_vars, rounds, last_round, executors, load, task_count,
                   history, performance_stats, last_result, process_calls,
                   broker_neighbors, selection, balance_calls>>

InitOutcomes ==
    /\ InitGraph(2, default_edge_probability)
    /\ \E th \in InitialThetas(3), o \in [0 .. 1 -> OutcomePatterns] :
          InitBrokers([b \in 0 .. 1 |->
                          AfterOutcomes(NewBroker(3, th), o[b], spsa_window)])
    /\ NoAgents

NextOutcomes == PairedUpdate

SpecOutcomes == InitOutcomes /\ [][NextOutcomes]_vars

\* Callers of one executor, each in a thread of its own: a caller calls
\* accept_task and, when the task was accepted, execute_task.  The
\* interpreter may switch threads between any two statements, and within
\* a += between the read and the store.
LoadCapacities == {1, 2}

\* the threads that call the executor
Threads == {"A", "B"}

InitExecutor ==
    /\ InitGraph(1, default_edge_probability)
    /\ NoBrokers
    /\ \E load_capacity \in LoadCapacities :
          InitAgents(0, load_capacity, Threads)

NextExecutor ==
    \/ AcceptTask
    \/ BeginExecute
    \/ IncrementLoad
    \/ RunTask
    \/ DecrementLoad

SpecExecutor == InitExecutor /\ [][NextExecutor]_vars

\* A round-robin controller over a list of no to three executors.
ControllerExecutors == 0 .. 3

InitRoundRobin ==
    /\ InitGraph(1, default_edge_probability)
    /\ NoBrokers
    /\ \E n \in ControllerExecutors :
          InitAgents(n, default_load_capacity, {})

NextRoundRobin == RoundRobinTask

SpecRoundRobin == InitRoundRobin /\ [][NextRoundRobin]_vars

\* Two brokers of three executors that have run for long: each has a full
\* SPSA window, and its theta is where earlier SPSA updates have left it,
\* at a bound of the clip or inside.  (The updates reach the bounds: with
\* a loss noise of u_plus - u_minus close to 0.1 a step moves two of the
\* three components outwards by 0.005 - 0.002 * |theta|, which is positive
\* up to the bound.)  Graph ticks, consensus rounds with the default
\* gamma_consensus and SPSA updates then interleave.
SeasonedThetas ==
    {[k \in 1 .. 3 |-> v] : v \in {-2 * Scale, Float(1, 2), 2 * Scale}}

SeasonedBroker(th) ==
    [AfterTasks(NewBroker(3, [k \in 1 .. 3 |-> Float(1, 2)]), spsa_window)
        EXCEPT !.theta = th]

\* at most MaxDefaultsCalls ticks, rounds and updates in a run
MaxDefaultsCalls == 4

DefaultsBudget == ticks + rounds + update_calls < MaxDefaultsCalls

DefaultsTick == DefaultsBudget /\ UpdateGraph

DefaultsRound ==
    /\ DefaultsBudget
    /\ ConsensusUpdateWith(Orders(Brokers), {gamma_consensus}, MaxRounds)

\* an SPSA update with any delta and no loss noise
DefaultsUpdate == DefaultsBudget /\ UpdateSpsaParametersWith({-1, 1}, {0})

InitDefaults ==
    /\ InitGraph(2, default_edge_probability)
    /\ \E th \in [0 .. 1 -> SeasonedThetas] :
          InitBrokers([b \in 0 .. 1 |-> SeasonedBroker(th[b])])
    /\ NoAgents

NextDefaults ==
    \/ GenerateInitialGraph
    \/ EnsureConnectivity
    \/ InitializeWeights
    \/ DefaultsTick
    \/ DefaultsRound
    \/ DefaultsUpdate

SpecDefaults == InitDefaults /\ [][NextDefaults]_vars

\* A graph of two brokers, whose one edge starts at weight 1.0, over a long
\* run of ticks: the weight decays until the product with weight_decay
\* rounds to the weight itself, unless a tick draws a new weight for it.
MaxDecayTicks == 140

DecayTick ==
    /\ pc = "ready"
    /\ ticks < MaxDecayTicks
    /\ ticks' = ticks + 1
    /\ \E r \in RandomDraws, action \in {"add", "remove", "modify_weight"} :
          \E g \in update_graph(TheGraph, r, action) :
             /\ SetGraph(g)
             /\ last_action' =
                   [action |-> IF r < modification_probability THEN action ELSE "none",
                    applied |-> g # ApplyDecay(TheGraph)]
    /\ UNCHANGED <<num_brokers, edge_probability, pc, node, exhausted>>
    /\ UNCHANGED <<broker_vars, rounds, last_round, agent_vars>>

InitDecay ==
    /\ InitGraph(2, default_edge_probability)
    /\ NoBrokers
    /\ NoAgents

NextDecay ==
    \/ GenerateInitialGraph
    \/ EnsureConnectivity
    \/ InitializeWeights
    \/ DecayTick

SpecDecay == InitDecay /\ [][NextDecay]_vars

---------------------------------------------------------------------------
(* Claims *)

Degree(i) == Len(neighbors[i])

ElemsOf(seq) == {seq[k] : k \in 1 .. Len(seq)}

\* C1: consensus_update computes every visited broker's new theta from the
\* thetas all brokers held before the round: theta_i + gamma * SUM_j
\* weight(i,j) * (theta_j - theta_i) over the old values, whatever the
\* visiting order.
ConsensusFromSnapshot ==
    [][rounds' = rounds + 1 =>
          \A i \in Range(last_round'.order) :
              theta'[i] = ConsensusStep(theta, TheGraph, Range(last_round'.order),
                                        i, last_round'.gamma)]_vars

\* C2: after construction and after any ticks no node has more than
\* max_neighbors neighbours.
DegreeAtMostMax ==
    pc = "ready" => \A i \in Nodes : Degree(i) <= max_neighbors

\* C3: with more brokers than min_neighbors and a repair that did not run
\* out of partners every node has at least min_neighbors neighbours after
\* construction, and no tick brings a degree below min_neighbors.
MinDegreeKept ==
    [][/\ (pc' = "ready" /\ num_brokers' > min_neighbors /\ ~exhausted')
            => \A i \in Nodes : Len(neighbors'[i]) >= min_neighbors
       /\ pc = "ready"
            => \A i \in Nodes :
                  Degree(i) >= min_neighbors => Len(neighbors'[i]) >= min_neighbors]_vars

\* a tick removed an edge of a graph whose repair succeeded and left an
\* endpoint at min_neighbors
MinDegreeWitness ==
    /\ pc = "ready"
    /\ num_brokers > min_neighbors
    /\ ~exhausted
    /\ last_action = [action |-> "remove", applied |-> TRUE]
    /\ \E i \in Nodes : Degree(i) = min_neighbors

\* C4 as stated: 5 brokers, edge probability 0: every node has degree
\* exactly 2 after construction.
SparseDegreeExactlyTwo ==
    (pc = "ready" /\ edge_probability = 0) => \A i \in Nodes : Degree(i) = 2

\* C4 amended: 5 brokers, edge probability 0: every node has degree at
\* least 2 after construction, whatever partners the repair picks.
SparseDegreeAtLeastTwo ==
    (pc = "ready" /\ edge_probability = 0) => \A i \in Nodes : Degree(i) >= 2

\* the repair picked a partner that had two neighbours already
SparseDegreeWitness ==
    /\ pc = "ready"
    /\ edge_probability = 0
    /\ num_brokers = SparseBrokers
    /\ \E i \in Nodes : Degree(i) > 2

\* C5: after n completed tasks the SPSA update has run floor(n / W) times.
UpdateEveryWindow ==
    \A b \in Brokers : spsa_updates[b] = Len(history[b]) \div spsa_window

\* C6: an SPSA update called while the history holds fewer than W records
\* leaves theta unchanged.
UpdateBelowWindowNoOp ==
    [][update_calls' = update_calls + 1 =>
          \A b \in Brokers :
              Len(history[b]) < spsa_window =>
                  theta'[b] = theta[b] /\ spsa_updates'[b] = spsa_updates[b]]_vars

\* the update was called on a broker with 9 records, and on no other
UpdateBelowWindowWitness ==
    /\ update_calls >= 1
    /\ Brokers # {}
    /\ \A b \in Brokers : Len(history[b]) = spsa_window - 1

\* C7: after every SPSA update every component of the broker's theta lies
\* in [-2.0, 2.0], also when a consensus round left it outside before.
ThetaClippedAfterUpdate ==
    [][\A b \in Brokers :
          spsa_updates'[b] # spsa_updates[b] =>
              \A k \in 1 .. Len(theta'[b]) :
                  -2 * Scale <= theta'[b][k] /\ theta'[b][k] <= 2 * Scale]_vars

\* an update clipped a component that a consensus round had pushed beyond
\* the bound
ThetaClippedWitness ==
    /\ rounds >= 1
    /\ update_calls >= 1
    /\ \E b \in Brokers : \E k \in 1 .. Len(theta[b]) : Abs(theta[b][k]) = 2 * Scale

\* C8: weight(i,j) = weight(j,i) for every stored edge, in every state.
WeightSymmetry ==
    \A e \in DOMAIN weights :
        get_weight(TheGraph, e[1], e[2]) = get_weight(TheGraph, e[2], e[1])

\* a tick has drawn a new weight for an edge
WeightSymmetryWitness ==
    /\ last_action = [action |-> "modify_weight", applied |-> TRUE]
    /\ \E e \in DOMAIN weights : weights[e] \in UniformWeights

\* C9: every stored weight key belongs to an edge that exists.
WeightsOnLiveEdges ==
    \A e \in DOMAIN weights :
        /\ adjacency_matrix[e] = 1
        /\ InSeq(e[2], neighbors[e[1]])

\* a tick has removed an edge
WeightsOnLiveEdgesWitness ==
    /\ last_action = [action |-> "remove", applied |-> TRUE]
    /\ \E e \in PairSet(num_brokers) : adjacency_matrix[e] = 0 /\ e \notin DOMAIN weights

\* C10: the adjacency relation is symmetric and has no self-loops; each
\* neighbour list has no duplicates and lists exactly the adjacent nodes.
AdjacencyConsistent ==
    /\ \A i, j \in Nodes : adjacency_matrix[<<i, j>>] = adjacency_matrix[<<j, i>>]
    /\ \A i \in Nodes : adjacency_matrix[<<i, i>>] = 0
    /\ \A i \in Nodes :
          /\ Cardinality(ElemsOf(neighbors[i])) = Len(neighbors[i])
          /\ ElemsOf(neighbors[i]) = {j \in Nodes : adjacency_matrix[<<i, j>>] = 1}

\* a tick has added an edge
AdjacencyWitness ==
    /\ last_action = [action |-> "add", applied |-> TRUE]
    /\ \E e \in PairSet(num_brokers) : adjacency_matrix[e] = 1

\* C11: when a broker has no executors, process_task returns the failure
\* result for a missing executor, and the broker's history, load, task
\* counters and theta stay as they were.
NoExecutorReported ==
    [][\A b \in Brokers :
          (executors[b] = 0 /\ process_calls' = process_calls + 1)
          => /\ last_result'[b] = [status |-> "failed"]
             /\ history'[b] = history[b]
             /\ load'[b] = load[b]
             /\ task_count'[b] = task_count[b]
             /\ performance_stats'[b] = performance_stats[b]
             /\ theta'[b] = theta[b]]_vars

NoExecutorWitness ==
    \E b \in Brokers :
        /\ executors[b] = 0
        /\ process_calls >= 1
        /\ last_result[b].status = "failed"
        /\ history[b] = <<>>

\* C12: a task whose simulated execution fails is returned as a completed
\* result with success = FALSE, and the outcome is appended to the history
\* as the outcome of a successful execution is.
FailedExecutionRecorded ==
    [][\A b \in Brokers :
          (/\ task_count'[b] = task_count[b] + 1
           /\ performance_stats'[b].successful_tasks
                 = performance_stats[b].successful_tasks)
          => /\ last_result'[b].status = "completed"
             /\ last_result'[b].success = FALSE
             /\ Len(history'[b]) = Len(history[b]) + 1
             /\ SubSeq(history'[b], 1, Len(history[b])) = history[b]
             /\ history'[b][Len(history'[b])].result = last_result'[b]]_vars

FailedExecutionWitness ==
    \E b \in Brokers :
        /\ last_result[b].status = "completed"
        /\ last_result[b].success = FALSE
        /\ history[b] # <<>>
        /\ history[b][Len(history[b])].result.success = FALSE

\* C13: for every broker with at least one executor, feature extraction
\* returns a vector as long as the executor list, so that the selection
\* returns an executor and the task completes.
FeatureExtractionSucceeds ==
    \A b \in Brokers :
        (executors[b] >= 1 /\ selection[b].pc = "done")
        => /\ selection[b].outcome = "selected"
           /\ \A i \in DOMAIN selection[b].features :
                 Len(selection[b].features[i]) = executors[b]
           /\ last_result[b].status = "completed"

\* C14: the first three components of every extracted feature vector lie
\* in [0, 1].
FeaturesInUnitRange ==
    \A b \in Brokers :
        \A i \in DOMAIN selection[b].features :
            \A k \in 1 .. 3 :
                /\ selection[b].features[i][k] >= 0
                /\ selection[b].features[i][k] <= Scale

\* C15: for a non-empty executor list the selection returns a member of
\* the list, the first one of those with the highest score.
SelectionReturnsArgmax ==
    \A b \in Brokers :
        (executors[b] >= 1 /\ selection[b].pc = "done")
        => /\ selection[b].index \in 1 .. executors[b]
           /\ \A j \in 1 .. executors[b] :
                 selection[b].scores[j] <= selection[b].scores[selection[b].index]
           /\ \A j \in 1 .. (selection[b].index - 1) :
                 selection[b].scores[j] < selection[b].scores[selection[b].index]

\* C16: a broker's load is never negative, after any sequence of
\* process_task and balance_load calls and for any loads of its neighbours.
LoadNonNegative == \A b \in Brokers : load[b] >= 0

\* a broker that has processed a task and whose load balance_load has
\* brought back to zero
LoadNonNegativeWitness ==
    \E b \in Brokers :
        /\ task_count[b] >= 1
        /\ broker_neighbors[b] # <<>>
        /\ load[b] = 0

\* C17: the theta of a broker changes only in a consensus round or in an
\* SPSA update, which needs a history of at least 10 records; every other
\* step (process_task and _update_spsa_parameters below the window,
\* balance_load, add_neighbor, update_graph, construction) leaves every theta
\* unchanged.
ThetaFrame ==
    [][\A b \in Brokers :
          theta'[b] # theta[b]
          => \/ rounds' = rounds + 1
             \/ /\ spsa_updates'[b] = spsa_updates[b] + 1
                /\ Len(history'[b]) >= spsa_window]_vars

ThetaFrameWitness ==
    /\ ticks >= 1
    /\ balance_calls >= 2
    /\ \E b \in Brokers :
          /\ broker_neighbors[b] # <<>>
          /\ history[b] # <<>>
          /\ Len(history[b]) < spsa_window
          /\ spsa_updates[b] = 0
          /\ selection[b].outcome = "selected"

\* the nodes reachable from the nodes of S
RECURSIVE ReachableFrom(_)
ReachableFrom(S) ==
    LET T == S \cup {j \in Nodes : \E i \in S : InSeq(j, neighbors[i])}
    IN  IF T = S THEN S ELSE ReachableFrom(T)

Connected == ReachableFrom({0}) = Nodes

MaxDegree == CHOOSE d \in {Degree(i) : i \in Nodes} :
                 \A i \in Nodes : Degree(i) <= d

\* for thetas th of one component: the number of brokers times the sum over
\* the brokers of the distance of theta to the mean of the thetas
TotalDistance(th) ==
    LET ids == [k \in 1 .. Cardinality(DOMAIN th) |-> k - 1]
        total == SumSeq([k \in DOMAIN ids |-> th[ids[k]][1]], 1)
    IN  SumSeq([k \in DOMAIN ids |-> Abs(Len(ids) * th[ids[k]][1] - total)], 1)

\* C18: on a connected graph with symmetric weights, a consensus round with
\* 0 < gamma < 1 / maxDegree over brokers that do not all agree strictly
\* decreases the total distance of the thetas from their mean.
ConsensusContracts ==
    [][(/\ rounds' = rounds + 1
        /\ Connected
        /\ WeightSymmetry
        /\ last_round'.gamma > 0
        /\ last_round'.gamma * MaxDegree < Scale
        /\ TotalDistance(theta) > 0)
       => TotalDistance(theta') < TotalDistance(theta)]_vars

\* C19: the construction of the graph terminates, for graphs of too few
\* brokers too: the repair leaves a node when it has min_neighbors
\* neighbours or when no eligible partner remains, and the weights are
\* initialized on the graph as it is then.
ConstructionTerminates == <>(pc = "ready")

\* a constructed graph with a node below min_neighbors
ConstructionWitness ==
    /\ pc = "ready"
    /\ num_brokers <= min_neighbors
    /\ exhausted
    /\ \E i \in Nodes : Degree(i) < min_neighbors

\* C20: a selection scores all its candidates against one and the same
\* theta of its broker, also when a consensus round runs during the
\* selection.
SelectionSeesOneTheta ==
    \A b \in Brokers :
        \A i, j \in DOMAIN selection[b].thetas :
            selection[b].thetas[i] = selection[b].thetas[j]

\* C21: an update_graph tick multiplies every weight stored at the start of
\* the tick by weight_decay, in both directions, and does so before the
\* modification of the tick: a key of the start of the tick holds its old
\* weight times weight_decay afterwards, unless the tick removed it or drew
\* a new weight for it, and a newly drawn weight is not decayed.
DecayBeforeModification ==
    [][ticks' = ticks + 1 =>
          \A e \in DOMAIN weights :
              \/ /\ e \in DOMAIN weights'
                 /\ weights'[e] = FMul(weights[e], weight_decay)
              \/ /\ last_action' = [action |-> "remove", applied |-> TRUE]
                 /\ e \notin DOMAIN weights'
                 /\ <<e[2], e[1]>> \notin DOMAIN weights'
              \/ /\ last_action' = [action |-> "modify_weight", applied |-> TRUE]
                 /\ e \in DOMAIN weights'
                 /\ weights'[e] \in UniformWeights
                 /\ weights'[<<e[2], e[1]>>] = weights'[e]]_vars

\* a tick has drawn a new weight for one edge and decayed another
DecayWitness ==
    /\ ticks = 1
    /\ last_action = [action |-> "modify_weight", applied |-> TRUE]
    /\ \E e, f \in DOMAIN weights :
          /\ weights[e] \in UniformWeights
          /\ weights[f] \notin UniformWeights
          /\ weights[<<f[2], f[1]>>] = weights[f]

\* the edges of the graph, as get_graph_stats counts them
Edges == {e \in PairSet(num_brokers) : InSeq(e[2], neighbors[e[1]])}

\* C22: a tick whose draw selects a modification performs exactly one
\* mutation, in every graph state: it adds one edge, or removes one edge,
\* or gives one existing edge a new weight.
ExactlyOneMutation ==
    [][(ticks' = ticks + 1 /\ last_action'.action # "none")
       => \/ /\ Edges \subseteq Edges'
             /\ Cardinality(Edges' \ Edges) = 1
          \/ /\ Edges' \subseteq Edges
             /\ Cardinality(Edges \ Edges') = 1
          \/ /\ Edges' = Edges
             /\ Cardinality({e \in Edges :
                                weights'[e] # FMul(weights[e], weight_decay)}) = 1]_vars

LoadWithinCapacity == executor.current_load <= executor.load_capacity

\* C25: the round-robin controller hands the k-th processed task (counting
\* from 0) to executors[k mod n], current_executor stays in 0 .. n-1, and
\* any n consecutive tasks use each of the n executors once.
RoundRobinOrder ==
    controller.executors >= 1 =>
        LET n == controller.executors
        IN  /\ controller.current_executor \in 0 .. n - 1
            /\ \A k \in 1 .. Len(assigned) :
                  /\ assigned[k].status = "completed"
                  /\ assigned[k].executor_id = (k - 1) % n
            /\ \A k \in 1 .. Len(assigned) - n + 1 :
                  {assigned[j].executor_id : j \in k .. k + n - 1} = 0 .. n - 1

\* a controller of three executors has gone round its list twice
RoundRobinWitness ==
    /\ controller.executors = 3
    /\ Len(assigned) = 7
    /\ controller.current_executor = 1
    /\ controller.task_count = 7

\* C26: in every state of a constructed graph every edge has a stored
\* weight for both directions, and the number of stored weights is twice
\* the number of edges get_graph_stats reports.
WeightsForEveryEdge ==
    pc = "ready" =>
        /\ \A e \in Edges : e \in DOMAIN weights /\ <<e[2], e[1]>> \in DOMAIN weights
        /\ get_graph_stats(TheGraph).weights_count
              = 2 * get_graph_stats(TheGraph).num_edges

\* a tick has added an edge to a graph and another tick has removed one
WeightsForEveryEdgeWitness ==
    /\ pc = "ready"
    /\ ticks = 2
    /\ last_action = [action |-> "remove", applied |-> TRUE]
    /\ get_graph_stats(TheGraph).num_edges >= 4
    /\ \E e \in DOMAIN weights : weights[e] = FMul(Float(1, 1), weight_decay)

\* the sum over the brokers of component c of their thetas
RECURSIVE ThetaSum(_, _, _)
ThetaSum(th, S, c) ==
    IF S = {} THEN 0
    ELSE LET b == CHOOSE x \in S : TRUE
         IN  th[b][c] + ThetaSum(th, S \ {b}, c)

\* C27: a consensus round over all brokers of the graph, with symmetric
\* weights and thetas of one length, preserves the sum of every component
\* of theta over the brokers.
ConsensusPreservesSum ==
    [][(/\ rounds' = rounds + 1
        /\ WeightSymmetry
        /\ Range(last_round'.order) = Brokers
        /\ Brokers = Nodes
        /\ \A a, b \in Brokers : Len(theta[a]) = Len(theta[b]))
       => \A b \in Brokers :
             \A c \in 1 .. Len(theta[b]) :
                 ThetaSum(theta', Brokers, c) = ThetaSum(theta, Brokers, c)]_vars

\* C28: with the default gamma_consensus every component of every theta
\* lies in [-2.0, 2.0] after any interleaving of SPSA updates, consensus
\* rounds and graph ticks.
ThetaWithinBounds ==
    \A b \in Brokers :
        \A k \in 1 .. Len(theta[b]) :
            -2 * Scale <= theta[b][k] /\ theta[b][k] <= 2 * Scale

\* a round has moved a theta that was at a bound towards the theta of the
\* neighbour, after a tick, and an SPSA update has run
ThetaWithinBoundsWitness ==
    /\ ticks >= 1
    /\ rounds >= 1
    /\ update_calls >= 1
    /\ \E b \in Brokers : \A k \in 1 .. 3 : theta[b][k] = 2 * Scale
    /\ \E b \in Brokers :
          \A k \in 1 .. 3 : -2 * Scale < theta[b][k] /\ theta[b][k] < -Scale

\* C29: in every state of a broker task_count, total_tasks and the length
\* of the history are equal and successful_tasks is at most total_tasks;
\* a step keeps the history or appends one record to it.
CountersAgree ==
    [][\A b \in Brokers :
          /\ task_count[b] = Len(history[b])
          /\ performance_stats[b].total_tasks = Len(history[b])
          /\ performance_stats[b].successful_tasks <= performance_stats[b].total_tasks
          /\ task_count'[b] = Len(history'[b])
          /\ performance_stats'[b].total_tasks = Len(history'[b])
          /\ performance_stats'[b].successful_tasks <= performance_stats'[b].total_tasks
          /\ Len(history'[b]) \in {Len(history[b]), Len(history[b]) + 1}
          /\ SubSeq(history'[b], 1, Len(history[b])) = history[b]
          /\ last_result'[b].status = "completed"
                => Len(history'[b]) = Len(history[b]) + 1]_vars

\* a broker that has processed more tasks than the SPSA window holds, some
\* of them failed
CountersWitness ==
    \E b \in Brokers :
        /\ Len(history[b]) > spsa_window
        /\ spsa_updates[b] >= 1
        /\ performance_stats[b].successful_tasks >= 1
        /\ performance_stats[b].successful_tasks < performance_stats[b].total_tasks

\* C30: in every graph state every stored weight is greater than 0 and at
\* most 1.0: the initial weights 2 / (deg(i) + deg(j)), the decayed weights
\* and the weights drawn by the ticks.
WeightsInUnitRange ==
    \A e \in DOMAIN weights : 0 < weights[e] /\ weights[e] <= Scale

\* the initial weight of 1.0 has decayed for so long that the decay no
\* longer changes it
WeightsInUnitRangeWitness ==
    /\ pc = "ready"
    /\ ticks >= 134
    /\ DOMAIN weights # {}
    /\ \A e \in DOMAIN weights :
          /\ weights[e] < Float(1, 10)
          /\ FMul(weights[e], weight_decay) = weights[e]

====
